---- MODULE Spec2Model ----
(***************************************************************************)
(* gin-doi: the DOI registration service.                                  *)
(*                                                                         *)
(* The module models the job dispatch and registration pipeline: the HTTP  *)
(* admission of a registration request, the buffered job queue, the        *)
(* dispatcher with its per-job hand-off goroutines, the pool of workers    *)
(* (a channel of the workers' job channels), Worker.start / Worker.stop,   *)
(* and the stages of Storage.Put executed by a worker.                     *)
(***************************************************************************)
EXTENDS Integers, Sequences, FiniteSets, TLC

\* ------------------------------------------------------------------ bounds
\* --max_workers, scaled down (the default is 3)
MaxWorkers == 2
\* --max_queue_size, scaled down (the default is 100)
MaxQueue == 1
\* number of registration requests the HTTP server handles at the same time
MaxAdmissions == 2
\* largest number of jobs admitted over a run
MaxJobs == 4
\* number of calls of Worker.stop() made over a run
MaxStops == 1

\* ------------------------------------------------------- program constants
maxWorkers == MaxWorkers
maxQ == MaxQueue

\* mutation: the loop of Run starts one worker too many (i <= d.maxWorkers)
WorkersOneMore == 1..(maxWorkers + 1)

\* Dispatcher.Run: for i := 0; i < d.maxWorkers; i++ { makeWorker(i+1, ...).start() }
Workers == 1..maxWorkers

Admissions == 1..MaxAdmissions

\* the repository URIs that requests name
URIs == {"INT/multielectrode_grasp", "G-Node/Info"}

UUIDMap ==
    [u \in {"INT/multielectrode_grasp",
            "ajkumaraswamy/HB-PAC_disinhibitory_network",
            "steffi/Kleineidam_et_al_2017",
            "Churan/Morris_et_al_Frontiers_2016",
            "fabee/efish_locking"} |->
        CASE u = "INT/multielectrode_grasp" -> "f83565d148510fede8a277f660e1a419"
          [] u = "ajkumaraswamy/HB-PAC_disinhibitory_network" ->
                "1090f803258557299d287c4d44a541b2"
          [] u = "steffi/Kleineidam_et_al_2017" -> "f53069de4c4921a3cfa8f17d55ef98bb"
          [] u = "Churan/Morris_et_al_Frontiers_2016" ->
                "97bc1456d3f4bca2d945357b3ec92029"
          [] u = "fabee/efish_locking" -> "6953bbf0087ba444b2d549b759de4a06"]

\* the strings makeUUID is called with: the URIs of the requests, the empty
\* string, and a key of UUIDMap in lower case and with a trailing slash
URIStrings ==
    URIs \cup {"", "int/multielectrode_grasp", "INT/multielectrode_grasp/"}

\* md5.Sum([]byte(URI)): the 16 bytes of the digest
md5Sum ==
    [u \in URIStrings |->
        CASE u = "" ->
                <<212, 29, 140, 217, 143, 0, 178, 4, 233, 128, 9, 152, 236, 248, 66, 126>>
          [] u = "INT/multielectrode_grasp" ->
                <<166, 232, 44, 176, 28, 248, 74, 74, 63, 226, 239, 130, 129, 128, 2, 31>>
          [] u = "int/multielectrode_grasp" ->
                <<147, 218, 208, 254, 197, 101, 84, 205, 178, 185, 226, 40, 14, 177, 159, 239>>
          [] u = "INT/multielectrode_grasp/" ->
                <<66, 165, 57, 44, 149, 21, 196, 165, 84, 236, 86, 224, 202, 161, 107, 187>>
          [] u = "G-Node/Info" ->
                <<61, 2, 203, 120, 214, 43, 120, 189, 13, 174, 66, 54, 62, 191, 232, 84>>]

\* encoding/hex: const hextable = "0123456789abcdef"
hextable ==
    <<"0", "1", "2", "3", "4", "5", "6", "7", "8", "9", "a", "b", "c", "d", "e", "f">>

RECURSIVE EncodeToStringNoPad(_)
\* mutation: a byte below 16 is written as one digit
EncodeToStringNoPad(src) ==
    IF src = <<>> THEN ""
    ELSE (IF Head(src) < 16 THEN hextable[Head(src) + 1]
          ELSE hextable[(Head(src) \div 16) + 1] \o hextable[(Head(src) % 16) + 1])
         \o EncodeToStringNoPad(Tail(src))

RECURSIVE EncodeToString(_)
\* hex.EncodeToString(src): hextable[v>>4], hextable[v&0x0f] for every byte v
EncodeToString(src) ==
    IF src = <<>> THEN ""
    ELSE hextable[(Head(src) \div 16) + 1] \o hextable[(Head(src) % 16) + 1]
         \o EncodeToString(Tail(src))

\* the messages of cmd/gindoid/gindoi.go; of the two HTML snippets the header
\* line is kept
msgInvalidDOI ==
    "The DOI file was not valid. Please see <a href=\"https://web.gin.g-node.org/G-Node/Info/wiki/DOIfile\">the DOI guide</a> for detailed instructions. "
msgInvalidURI == "Please provide a valid repository URI"
msgAlreadyRegistered == " A DOI is already registered for your dataset."
msgServerIsArchiving == "The DOI server has started archiving your repository."
msgNotLoggedIn ==
    "You are not logged in with the gin service. Login <a href=\"http://gin.g-node.org/\">here</a>"

\* ------------------------------------------------------------------- state
VARIABLES
    env,            \* what the surroundings of the service do in this run
    adm,            \* the requests being handled: position, URI, checks run
    jobs,           \* the jobs put on jobQueue so far, in that order
    jobQueue,       \* main: jobQueue := make(chan DoiJob, maxQ)
    hpc,            \* dispatch: position of the hand-off goroutine of each job
    hwq,            \* dispatch: workerJobQueue held by the hand-off goroutine
    workerPool,     \* Dispatcher.workerPool: chan chan DOIJob, cap maxWorkers
    pc,             \* Worker.start: position of each worker's goroutine
    cur,            \* Worker.start: the job the worker received (0: none)
    quitPending,    \* Worker.stop: goroutines blocked in w.QuitChan <- true
    stops,          \* number of stop() calls made so far
    outcome,        \* per job: state and reason of its pipeline
    archFailed,     \* jobs whose clone or content download reported an error
    finalized,      \* jobs whose archive and record were put to the storage
    registered,     \* identifiers the public resolution endpoint resolves
    notifications,  \* reports delivered to the NotificationSink
    assignLog,      \* history: <<job, worker>> in the order workers received
    meta,           \* the registration metadata being validated and the results
    derived,        \* history: the calls of makeUUID, <<URI, identifier>>
    cwd,            \* the working directory of the process
    call            \* the calls of CloneRepo: position, locals, statuses

\* the state of the functions that are exercised on their own
unitVars == <<meta, derived, cwd, call>>

vars ==
    <<env, adm, jobs, jobQueue, hpc, hwq, workerPool, pc, cur, quitPending, stops,
      outcome, archFailed, finalized, registered, notifications, assignLog,
      unitVars>>

\* mutation: the digest is salted with the number of identifiers derived so far
makeUUIDSalted(URI) ==
    IF URI \in DOMAIN UUIDMap THEN UUIDMap[URI]
    ELSE EncodeToString([i \in 1..16 |-> (md5Sum[URI][i] + Len(derived)) % 256])

\* makeUUID: the legacy identifier of the URI, or the MD5 digest in hexadecimal
makeUUID(URI) ==
    IF URI \in DOMAIN UUIDMap THEN UUIDMap[URI]
    ELSE EncodeToString(md5Sum[URI])

\* a job is identified by its position in the order of the sends on jobQueue
JobIds == 1..MaxJobs

NoOutcome == [state |-> "none", reason |-> <<>>]
NoRequest == [pc |-> "new", uri |-> "", facts |-> <<>>, run |-> <<>>, msg |-> ""]

\* The runs that are explored: a run under load (many requests for one
\* repository, nothing fails), a run in which a worker is stopped, and a run in
\* which requests are refused and the clone and the storage fail.
Environments ==
    { [jobs |-> MaxJobs, stops |-> 0, faults |-> FALSE, uris |-> {"G-Node/Info"}],
      [jobs |-> MaxJobs - 1, stops |-> MaxStops, faults |-> FALSE,
       uris |-> {"G-Node/Info"}],
      [jobs |-> MaxJobs - 2, stops |-> 0, faults |-> TRUE, uris |-> URIs] }

\* no metadata is being validated, makeUUID and CloneRepo have not been called
NoMeta == [kind |-> "none"]
UnitsIdle ==
    /\ meta = NoMeta
    /\ derived = <<>>
    /\ cwd = "/"
    /\ call = <<>>

\* main: the job queue, the dispatcher and its workers are started
InitDispatch ==
    /\ env \in Environments
    /\ adm = [a \in Admissions |-> NoRequest]
    /\ jobs = <<>>
    /\ jobQueue = <<>>
    /\ hpc = [j \in JobIds |-> "none"]
    /\ hwq = [j \in JobIds |-> 0]
    /\ workerPool = <<>>
    /\ pc = [w \in Workers |-> "register"]
    /\ cur = [w \in Workers |-> 0]
    /\ quitPending = [w \in Workers |-> 0]
    /\ stops = 0
    /\ outcome = [j \in JobIds |-> NoOutcome]
    /\ archFailed = {}
    /\ finalized = {}
    /\ registered = {}
    /\ notifications = {}
    /\ assignLog = <<>>

Init == InitDispatch /\ UnitsIdle

\* --------------------------------------------------------------- admission
\* The order of the admission checks
CheckOrder == <<"auth", "fetch", "validate", "exists">>

\* mutation: deficient metadata does not end the admission
AdmitChecksNoValidation(authOK, fetchOK, metaOK, exists) ==
    IF ~authOK THEN
        [run |-> SubSeq(CheckOrder, 1, 1), result |-> "Rejected",
         message |-> msgNotLoggedIn]
    ELSE IF ~fetchOK THEN
        [run |-> SubSeq(CheckOrder, 1, 2), result |-> "Rejected",
         message |-> msgInvalidURI]
    ELSE IF exists THEN
        [run |-> CheckOrder, result |-> "AlreadyRegistered",
         message |-> msgAlreadyRegistered]
    ELSE
        [run |-> CheckOrder, result |-> "send",
         message |-> msgServerIsArchiving]

\* admit(request): the checks run in order and stop at the first that fails
AdmitChecks(authOK, fetchOK, metaOK, exists) ==
    IF ~authOK THEN
        [run |-> SubSeq(CheckOrder, 1, 1), result |-> "Rejected",
         message |-> msgNotLoggedIn]
    ELSE IF ~fetchOK THEN
        [run |-> SubSeq(CheckOrder, 1, 2), result |-> "Rejected",
         message |-> msgInvalidURI]
    ELSE IF ~metaOK THEN
        [run |-> SubSeq(CheckOrder, 1, 3), result |-> "Rejected",
         message |-> msgInvalidDOI]
    ELSE IF exists THEN
        [run |-> CheckOrder, result |-> "AlreadyRegistered",
         message |-> msgAlreadyRegistered]
    ELSE
        [run |-> CheckOrder, result |-> "send",
         message |-> msgServerIsArchiving]

\* the public resolution endpoint: exists(identifier)
Exists(id) == id \in registered

\* what a check of a request can find
CheckResults == IF env.faults THEN BOOLEAN ELSE {TRUE}

\* the requests that arrive: a request that passes the first three checks for
\* every URI and, when things fail, every combination of failing checks
Requests ==
    {[uri |-> u, authOK |-> TRUE, fetchOK |-> TRUE, metaOK |-> TRUE] : u \in env.uris}
    \cup {[uri |-> "G-Node/Info", authOK |-> x, fetchOK |-> y, metaOK |-> z] :
             x \in CheckResults, y \in CheckResults, z \in CheckResults}

\* number of requests that passed the checks and are about to send their job
Sending == Cardinality({a \in Admissions : adm[a].pc = "send"})

\* an HTTP request on /do/ arrives and runs the admission checks
Admit(a) ==
    /\ adm[a].pc = "new"
    /\ a > 1 => adm[a - 1].pc # "new"
    /\ Len(jobs) + Sending < env.jobs
    /\ \E req \in Requests :
          LET ex == Exists(makeUUID(req.uri))
              r == AdmitChecks(req.authOK, req.fetchOK, req.metaOK, ex)
          IN adm' = [adm EXCEPT ![a] =
                        [pc |-> r.result, uri |-> req.uri,
                         facts |-> <<req.authOK, req.fetchOK, req.metaOK, ~ex>>,
                         run |-> r.run, msg |-> r.message]]
    /\ UNCHANGED <<unitVars, env, jobs, jobQueue, hpc, hwq, workerPool, pc, cur, quitPending,
                   stops, outcome, archFailed, finalized, registered,
                   notifications, assignLog>>

\* job := DOIJob{Name: uuid, Source: URI}; jobQueue <- job
Enqueue(a) ==
    /\ adm[a].pc = "send"
    /\ Len(jobQueue) < maxQ
    /\ jobs' = Append(jobs, [Name |-> makeUUID(adm[a].uri), Source |-> adm[a].uri])
    /\ jobQueue' = Append(jobQueue, Len(jobs) + 1)
    /\ adm' = [adm EXCEPT ![a].pc = "Accepted"]
    /\ UNCHANGED <<unitVars, env, hpc, hwq, workerPool, pc, cur, quitPending, stops, outcome,
                   archFailed, finalized, registered, notifications, assignLog>>

\* the response is written and the handler returns
Respond(a) ==
    /\ adm[a].pc \in {"Rejected", "AlreadyRegistered", "Accepted"}
    /\ adm' = [adm EXCEPT ![a] = NoRequest]
    /\ UNCHANGED <<unitVars, env, jobs, jobQueue, hpc, hwq, workerPool, pc, cur, quitPending,
                   stops, outcome, archFailed, finalized, registered,
                   notifications, assignLog>>

\* -------------------------------------------------------------- dispatcher
\* mutation: the job is read but stays at the head of the queue
DispatchRecvNoDequeue ==
    /\ jobQueue # <<>>
    /\ hpc' = [hpc EXCEPT ![Head(jobQueue)] = "fetch"]
    /\ UNCHANGED <<unitVars, env, adm, jobs, jobQueue, hwq, workerPool, pc, cur,
                   quitPending, stops, outcome, archFailed, finalized,
                   registered, notifications, assignLog>>

\* mutation: no goroutine per job, the loop hands the job over itself and
\* reads the next job only after a worker has taken the previous one
DispatchRecvInline ==
    /\ jobQueue # <<>>
    /\ \A j \in JobIds : hpc[j] \notin {"fetch", "send"}
    /\ hpc' = [hpc EXCEPT ![Head(jobQueue)] = "fetch"]
    /\ jobQueue' = Tail(jobQueue)
    /\ UNCHANGED <<unitVars, env, adm, jobs, hwq, workerPool, pc, cur, quitPending, stops,
                   outcome, archFailed, finalized, registered, notifications,
                   assignLog>>

\* dispatch: case job := <-d.jobQueue: go func() {...}()
DispatchRecv ==
    /\ jobQueue # <<>>
    /\ hpc' = [hpc EXCEPT ![Head(jobQueue)] = "fetch"]
    /\ jobQueue' = Tail(jobQueue)
    /\ UNCHANGED <<unitVars, env, adm, jobs, hwq, workerPool, pc, cur, quitPending, stops,
                   outcome, archFailed, finalized, registered, notifications,
                   assignLog>>

\* mutation: the pool is read without waiting; with no worker in it the
\* goroutine ends and the job is gone
HandoffFetchNoWait(j) ==
    /\ hpc[j] = "fetch"
    /\ IF workerPool # <<>>
       THEN /\ hwq' = [hwq EXCEPT ![j] = Head(workerPool)]
            /\ workerPool' = Tail(workerPool)
            /\ hpc' = [hpc EXCEPT ![j] = "send"]
       ELSE /\ hpc' = [hpc EXCEPT ![j] = "done"]
            /\ UNCHANGED <<hwq, workerPool>>
    /\ UNCHANGED <<unitVars, env, adm, jobs, jobQueue, pc, cur, quitPending, stops, outcome,
                   archFailed, finalized, registered, notifications, assignLog>>

\* hand-off goroutine: workerJobQueue := <-d.workerPool
HandoffFetch(j) ==
    /\ hpc[j] = "fetch"
    /\ workerPool # <<>>
    /\ hwq' = [hwq EXCEPT ![j] = Head(workerPool)]
    /\ workerPool' = Tail(workerPool)
    /\ hpc' = [hpc EXCEPT ![j] = "send"]
    /\ UNCHANGED <<unitVars, env, adm, jobs, jobQueue, pc, cur, quitPending, stops, outcome,
                   archFailed, finalized, registered, notifications, assignLog>>

\* ------------------------------------------------------------------ worker
\* Worker.start: w.WorkerPool <- w.JobQueue
WorkerRegister(w) ==
    /\ pc[w] = "register"
    /\ Len(workerPool) < maxWorkers
    /\ workerPool' = Append(workerPool, w)
    /\ pc' = [pc EXCEPT ![w] = "select"]
    /\ UNCHANGED <<unitVars, env, adm, jobs, jobQueue, hpc, hwq, cur, quitPending, stops,
                   outcome, archFailed, finalized, registered, notifications,
                   assignLog>>

\* Worker.start: case job := <-w.JobQueue, the rendezvous with the hand-off
\* goroutine's workerJobQueue <- job; the worker then calls job.Storage.Put(job)
WorkerRecv(w) ==
    /\ pc[w] = "select"
    /\ \E j \in JobIds :
          /\ hpc[j] = "send"
          /\ hwq[j] = w
          /\ hpc' = [hpc EXCEPT ![j] = "done"]
          /\ hwq' = [hwq EXCEPT ![j] = 0]
          /\ cur' = [cur EXCEPT ![w] = j]
          /\ assignLog' = Append(assignLog, <<j, w>>)
    /\ pc' = [pc EXCEPT ![w] = "Archiving"]
    /\ UNCHANGED <<unitVars, env, adm, jobs, jobQueue, workerPool, quitPending, stops,
                   outcome, archFailed, finalized, registered, notifications>>

\* mutation: the quit request is also taken while Put runs
QuitObservableInPut(p) == p \in {"select", "Archiving", "Finalizing"}

\* the positions of Worker.start at which <-w.QuitChan can be taken
QuitObservable(p) == p = "select"

\* Worker.start: case <-w.QuitChan: return
WorkerQuit(w) ==
    /\ QuitObservable(pc[w])
    /\ quitPending[w] > 0
    /\ quitPending' = [quitPending EXCEPT ![w] = @ - 1]
    /\ pc' = [pc EXCEPT ![w] = "stopped"]
    /\ UNCHANGED <<unitVars, env, adm, jobs, jobQueue, hpc, hwq, workerPool, cur, stops,
                   outcome, archFailed, finalized, registered, notifications,
                   assignLog>>

\* Worker.stop: go func() { w.QuitChan <- true }()
Stop(w) ==
    /\ stops < env.stops
    /\ stops' = stops + 1
    /\ quitPending' = [quitPending EXCEPT ![w] = @ + 1]
    /\ UNCHANGED <<unitVars, env, adm, jobs, jobQueue, hpc, hwq, workerPool, pc, cur,
                   outcome, archFailed, finalized, registered, notifications,
                   assignLog>>

\* mutation: the worker leaves its loop when Put returns an error
AfterPutQuitOnError(j, err) ==
    IF err # "nil" THEN [pc |-> "stopped", cur |-> 0]
    ELSE [pc |-> "register", cur |-> 0]

\* the worker's loop after job.Storage.Put(job) returned err: the error is
\* dropped, the completion is logged and the loop starts over
AfterPut(j, err) == [pc |-> "register", cur |-> 0]

\* ------------------------------------------------------------- Storage.Put
NoErr == "nil"

\* RepoFileStatus.Err of the statuses a clone or a download sends
StatusStreams ==
    {<<NoErr>>} \cup (IF env.faults THEN {<<NoErr, "transport timeout">>} ELSE {})

\* what the storage answers when the archive and the record are put
StorageResults ==
    {NoErr} \cup (IF env.faults THEN {"storage error"} ELSE {})

RECURSIVE FirstErr(_)
\* for stat := range ch { if stat.Err != nil { return stat.Err } }
FirstErr(stats) ==
    IF stats = <<>> THEN NoErr
    ELSE IF Head(stats) # NoErr THEN Head(stats)
    ELSE FirstErr(Tail(stats))

\* mutation: the statuses of the content download are not checked for errors
CloneRepoCloneOnly(cloneStats, downloadStats) == FirstErr(cloneStats)

\* CloneRepo: the clone statuses, then the content download statuses
CloneRepo(cloneStats, downloadStats) ==
    IF FirstErr(cloneStats) # NoErr THEN FirstErr(cloneStats)
    ELSE FirstErr(downloadStats)

\* some status of the clone, or of the download after a clean clone, has an error
ArchiveFails(cloneStats, downloadStats) ==
    \/ \E i \in 1..Len(cloneStats) : cloneStats[i] # NoErr
    \/ \E i \in 1..Len(downloadStats) : downloadStats[i] # NoErr

Report(j, kind, detail) ==
    [job |-> j, name |-> jobs[j].Name, kind |-> kind, detail |-> detail]

\* mutation: a failed job is not reported
NoFailureReports(j, reason) == {}

\* the failure report handed to the NotificationSink: job name and reason
FailureReports(j, reason) == {Report(j, "failure", reason)}

\* Put, Archiving: the repository is cloned; an ArchiveFailure ends the job
PutArchive(w) ==
    /\ pc[w] = "Archiving"
    /\ \E cs \in StatusStreams, ds \in StatusStreams :
          LET j == cur[w]
              err == CloneRepo(cs, ds)
              reason == <<"archive failed:", err>>
          IN /\ archFailed' = IF ArchiveFails(cs, ds) THEN archFailed \cup {j}
                               ELSE archFailed
             /\ IF err # NoErr
                THEN /\ outcome' = [outcome EXCEPT ![j] =
                                       [state |-> "Failed", reason |-> reason]]
                     /\ notifications' =
                           notifications \cup FailureReports(j, reason)
                     /\ pc' = [pc EXCEPT ![w] = AfterPut(j, err).pc]
                     /\ cur' = [cur EXCEPT ![w] = AfterPut(j, err).cur]
                ELSE /\ pc' = [pc EXCEPT ![w] = "Finalizing"]
                     /\ UNCHANGED <<outcome, notifications, cur>>
    /\ UNCHANGED <<unitVars, env, adm, jobs, jobQueue, hpc, hwq, workerPool, quitPending,
                   stops, finalized, registered, assignLog>>

\* Put, Finalizing: the registration record and the archive are persisted
PutFinalize(w) ==
    /\ pc[w] = "Finalizing"
    /\ \E err \in StorageResults :
          LET j == cur[w]
              reason == <<"storage failed:", err>>
          IN /\ finalized' = finalized \cup {j}
             /\ IF err = NoErr
                THEN /\ outcome' = [outcome EXCEPT ![j] =
                                       [state |-> "Succeeded", reason |-> <<>>]]
                     /\ registered' = registered \cup {jobs[j].Name}
                     /\ notifications' =
                           notifications \cup {Report(j, "success", <<jobs[j].Name>>)}
                ELSE /\ outcome' = [outcome EXCEPT ![j] =
                                       [state |-> "Failed", reason |-> reason]]
                     /\ notifications' =
                           notifications \cup FailureReports(j, reason)
                     /\ UNCHANGED registered
             /\ pc' = [pc EXCEPT ![w] = AfterPut(j, err).pc]
             /\ cur' = [cur EXCEPT ![w] = AfterPut(j, err).cur]
    /\ UNCHANGED <<unitVars, env, adm, jobs, jobQueue, hpc, hwq, workerPool, quitPending,
                   stops, archFailed, assignLog>>

Next ==
    \/ \E a \in Admissions : Admit(a)
    \/ \E a \in Admissions : Enqueue(a)
    \/ \E a \in Admissions : Respond(a)
    \/ DispatchRecv
    \/ \E j \in JobIds : HandoffFetch(j)
    \/ \E w \in Workers : WorkerRegister(w)
    \/ \E w \in Workers : WorkerRecv(w)
    \/ \E w \in Workers : WorkerQuit(w)
    \/ \E w \in Workers : Stop(w)
    \/ \E w \in Workers : PutArchive(w)
    \/ \E w \in Workers : PutFinalize(w)

Spec == Init /\ [][Next]_vars

\* The scheduler runs every goroutine that can take a step: the dispatcher's
\* loop and the request handlers. Nothing is assumed about the workers and the
\* hand-off goroutines, which may stay where they are for ever.
FairSpec ==
    /\ Spec
    /\ WF_vars(DispatchRecv)
    /\ \A a \in Admissions : WF_vars(Enqueue(a))

\* ------------------------------------------------------------- properties
InPut(w) == pc[w] \in {"Archiving", "Finalizing"}
Terminal(j) == outcome[j].state \in {"Succeeded", "Failed"}
\* the positions of assignLog at which job j was received by a worker
Received(j) == {i \in 1..Len(assignLog) : assignLog[i][1] = j}
InPool(w) == \E i \in 1..Len(workerPool) : workerPool[i] = w

\* C1: a job taken from the job queue is received by at most one worker and
\* Put is invoked at most once for it; the worker that executes a job is the
\* one that received it, and no two workers hold the same job.
ExactlyOneWorkerPerJob ==
    /\ \A j \in JobIds : Cardinality(Received(j)) <= 1
    /\ \A j \in JobIds : Terminal(j) => Cardinality(Received(j)) = 1
    /\ \A w \in Workers :
          cur[w] # 0 => \E i \in Received(cur[w]) : assignLog[i][2] = w
    /\ \A w1 \in Workers, w2 \in Workers :
          (w1 # w2 /\ cur[w1] # 0) => cur[w1] # cur[w2]

\* two jobs were executed to the end, by two different workers
TwoWorkersTwoJobs ==
    \E i \in 1..Len(assignLog), k \in 1..Len(assignLog) :
        /\ assignLog[i][2] # assignLog[k][2]
        /\ Terminal(assignLog[i][1])
        /\ Terminal(assignLog[k][1])

\* C2: at most maxWorkers jobs are inside Storage.Put; a worker inside Put is
\* not in the worker pool and no hand-off goroutine holds its job channel, and
\* every job a worker received earlier has run to its end.
BoundedConcurrency ==
    /\ Cardinality({w \in Workers : InPut(w)}) <= maxWorkers
    /\ \A w \in Workers :
          InPut(w) =>
             /\ cur[w] # 0
             /\ ~InPool(w)
             /\ \A j \in JobIds : hwq[j] # w
    /\ \A i \in 1..Len(assignLog) :
          Terminal(assignLog[i][1]) \/ cur[assignLog[i][2]] = assignLog[i][1]

\* every worker is inside Put while another job waits for a worker
AllWorkersBusyJobWaiting ==
    /\ \A w \in Workers : InPut(w)
    /\ \E j \in JobIds : hpc[j] = "fetch"

\* C3: jobs are handed to workers in the order they were put on the job queue
\* (job ids count the sends on the job queue).
FifoAssignment ==
    \A i \in 1..Len(assignLog) : assignLog[i][1] = i

\* C4: no two workers execute jobs with the same Name at the same time.
OnePipelinePerIdentifier ==
    \A w1 \in Workers, w2 \in Workers :
        (w1 # w2 /\ InPut(w1) /\ InPut(w2)) =>
            jobs[cur[w1]].Name # jobs[cur[w2]].Name

\* C5: a request handler that is sending its job on the job queue gets past
\* the send, whatever the workers do.
SendCompletes ==
    \A a \in Admissions : (adm[a].pc = "send") ~> (adm[a].pc # "send")

\* a handler is sending while the queue is full and every worker is inside Put
SendWhileAllBusy ==
    /\ \E a \in Admissions : adm[a].pc = "send"
    /\ Len(jobQueue) = maxQ
    /\ \A w \in Workers : InPut(w)

\* C6: when Put returns, with or without an error, the worker's next step is
\* the send of its job channel into the worker pool, and that send can be made.
WorkerReturnsToPool ==
    /\ [][\A w \in Workers :
            /\ (InPut(w) /\ ~InPut(w)') => pc'[w] = "register"
            /\ (pc[w] = "register" /\ pc'[w] # "register") =>
                  (pc'[w] = "select" /\ workerPool' = Append(workerPool, w))]_vars
    /\ [](\A w \in Workers : pc[w] = "register" => Len(workerPool) < maxWorkers)

\* a worker whose job failed is back in the pool
FailedJobWorkerInPool ==
    \E i \in 1..Len(assignLog) :
        /\ outcome[assignLog[i][1]].state = "Failed"
        /\ InPool(assignLog[i][2])

StorageErrorNotified ==
    \A j \in JobIds :
        (j \in finalized /\ outcome[j].state = "Failed") =>
            \E r \in notifications :
                /\ r.job = j
                /\ r.name = jobs[j].Name
                /\ r.kind = "failure"
                /\ r.detail = outcome[j].reason
                /\ r.detail[2] = "storage error"

\* the storage failed for a job and the worker has returned from Put
StorageFailedPutReturned ==
    \E i \in 1..Len(assignLog) :
        /\ assignLog[i][1] \in finalized
        /\ outcome[assignLog[i][1]].state = "Failed"
        /\ ~InPut(assignLog[i][2])

\* the first check of a request that fails (5: none)
FirstFailing(facts) ==
    IF \E i \in 1..4 : ~facts[i]
    THEN CHOOSE i \in 1..4 : ~facts[i] /\ \A k \in 1..(i - 1) : facts[k]
    ELSE 5

\* C10: the checks of a request run in the order authentication, fetch,
\* validation, already-registered and stop at the first that fails; a request
\* that is Rejected carries the message of its check; a request that is
\* Rejected or AlreadyRegistered puts no job on the job queue, and a
\* request that passes all four checks puts exactly one.
AdmissionShortCircuits ==
    /\ [](\A a \in Admissions :
            adm[a].pc # "new" =>
               LET ff == FirstFailing(adm[a].facts)
               IN /\ adm[a].run = SubSeq(CheckOrder, 1, IF ff = 5 THEN 4 ELSE ff)
                  /\ adm[a].pc = "Rejected" <=> ff \in 1..3
                  /\ ff = 1 => adm[a].msg = msgNotLoggedIn
                  /\ ff = 2 => adm[a].msg = msgInvalidURI
                  /\ ff = 3 => adm[a].msg = msgInvalidDOI
                  /\ adm[a].pc = "AlreadyRegistered" <=> ff = 4
                  /\ adm[a].pc \in {"send", "Accepted"} <=> ff = 5)
    /\ [][/\ \A a \in Admissions :
               (adm[a].pc \in {"Rejected", "AlreadyRegistered"} /\ adm'[a] # adm[a]) =>
                  (adm'[a].pc = "new" /\ jobs' = jobs /\ jobQueue' = jobQueue)
          /\ \A a \in Admissions :
               (adm[a].pc = "send" /\ adm'[a].pc # "send") =>
                  /\ adm'[a].pc = "Accepted"
                  /\ Len(jobs') = Len(jobs) + 1
                  /\ jobQueue' = Append(jobQueue, Len(jobs'))
          /\ \A a \in Admissions :
               (adm[a].pc = "Accepted" /\ adm'[a] # adm[a]) =>
                  (adm'[a].pc = "new" /\ jobs' = jobs)
          /\ (jobs' # jobs \/ Len(jobQueue') > Len(jobQueue)) =>
               \E a \in Admissions : adm[a].pc = "send" /\ adm'[a].pc = "Accepted"]_vars

\* a request was refused at its first check although its metadata is deficient
\* too, and another request was accepted
RejectedAndAccepted ==
    \E a \in Admissions, b \in Admissions :
        /\ adm[a].pc = "Rejected"
        /\ adm[a].facts = <<FALSE, TRUE, FALSE, TRUE>>
        /\ adm[b].pc = "Accepted"

\* ===================================================== metadata validation
\* largest number of authors and references, taken together, of a record
MaxItems == 2
\* largest number of calls of hasValues on one DOIRegInfo
MaxValidations == 2

msgNoTitle == "No title provided."
msgNoAuthors == "No authors provided."
msgInvalidAuthors ==
    "Not all authors valid. Please provide at least a last name and a first name."
msgNoDescription == "No description provided."
msgNoLicense == "No valid license provided. Please specify URL and name."
msgInvalidReference ==
    "A specified Reference is not valid. Please provide the name and type of the reference."

\* a pointer or a slice that can be nil: <<>> is nil, <<v>> points to v
nil == <<>>

\* the sequences over S with at most n elements
SeqUpTo(S, n) == UNION {[1..k -> S] : k \in 0..n}

\* the values a string field takes: empty or not
Texts == {"", "x"}

Authors == [FirstName : Texts, LastName : Texts]
Licenses == {nil} \cup {<<l>> : l \in [Name : Texts, URL : Texts]}
\* libgin.Reference, as checkMissingValues reads it
References == [RefType : Texts, Name : Texts, Citation : Texts]
\* Reference of the DOIRegInfo that hasValues reads: no Citation
ReferencesDOIRegInfo == [Reftype : Texts, Name : Texts]

\* the author lists and reference lists (nil, or a slice) of a record
AuthorsAndReferences(Refs) ==
    UNION {{[Authors |-> a, References |-> r] :
                a \in [1..n -> Authors],
                r \in {nil} \cup {<<l>> : l \in SeqUpTo(Refs, MaxItems - n)}} :
           n \in 0..MaxItems}

\* the records yaml.Unmarshal fills for checkMissingValues
RepositoryYAMLs ==
    {[Title |-> t, Authors |-> ar.Authors, Description |-> d, License |-> l,
      References |-> ar.References, DateTime |-> "0001-01-01"] :
        t \in Texts, d \in Texts, l \in Licenses,
        ar \in AuthorsAndReferences(References)}

\* the records yaml.Unmarshal fills for hasValues; Missing is a field of the
\* record like the others, filled from the document's "missing" key
DOIRegInfos ==
    {[Title |-> t, Authors |-> ar.Authors, Description |-> d, License |-> l,
      References |-> ar.References, DateTime |-> "0001-01-01", Missing |-> m] :
        t \in Texts, d \in Texts, l \in Licenses,
        ar \in AuthorsAndReferences(ReferencesDOIRegInfo),
        m \in {<<>>, <<"x">>}}

\* mutation: the loop over the authors stops at the first author it reports
appendInvalidAuthorsOnce(missing, authors) ==
    IF \E i \in 1..Len(authors) :
          authors[i].LastName = "" \/ authors[i].FirstName = ""
    THEN Append(missing, msgInvalidAuthors)
    ELSE missing

RECURSIVE appendInvalidAuthors(_, _)
\* for _, auth := range info.Authors {
\*     if auth.LastName == "" || auth.FirstName == "" { missing = append(...) } }
appendInvalidAuthors(missing, authors) ==
    IF authors = <<>> THEN missing
    ELSE appendInvalidAuthors(
            IF Head(authors).LastName = "" \/ Head(authors).FirstName = ""
            THEN Append(missing, msgInvalidAuthors)
            ELSE missing,
            Tail(authors))

\* mutation: a license with a name and no URL passes
licenseMissingNameOnly(License) ==
    IF License = nil THEN TRUE ELSE License[1].Name = ""

\* info.License == nil || info.License.Name == "" || info.License.URL == ""
licenseMissing(License) ==
    IF License = nil THEN TRUE
    ELSE License[1].Name = "" \/ License[1].URL = ""

\* mutation: a reference needs both a citation and a name
refInvalidBoth(ref) ==
    (ref.Citation = "" \/ ref.Name = "") \/ ref.RefType = ""

\* (ref.Citation == "" && ref.Name == "") || ref.RefType == ""
refInvalid(ref) ==
    (ref.Citation = "" /\ ref.Name = "") \/ ref.RefType = ""

RECURSIVE appendInvalidReferences(_, _)
\* for _, ref := range info.References { if ... { missing = append(...) } }
appendInvalidReferences(missing, refs) ==
    IF refs = <<>> THEN missing
    ELSE appendInvalidReferences(
            IF refInvalid(Head(refs))
            THEN Append(missing, msgInvalidReference)
            ELSE missing,
            Tail(refs))

\* mutation: the function returns at the first check that fails
checkMissingValuesFirstOnly(info) ==
    IF info.Title = "" THEN <<msgNoTitle>>
    ELSE IF Len(info.Authors) = 0 THEN <<msgNoAuthors>>
    ELSE IF appendInvalidAuthors(<<>>, info.Authors) # <<>>
         THEN appendInvalidAuthors(<<>>, info.Authors)
    ELSE IF info.Description = "" THEN <<msgNoDescription>>
    ELSE IF licenseMissing(info.License) THEN <<msgNoLicense>>
    ELSE IF info.References # nil
         THEN appendInvalidReferences(<<>>, info.References[1])
    ELSE <<>>

\* checkMissingValues returns the list of messages for missing or invalid values
checkMissingValues(info) ==
    LET m0 == <<>>
        m1 == IF info.Title = "" THEN Append(m0, msgNoTitle) ELSE m0
        m2 == IF Len(info.Authors) = 0 THEN Append(m1, msgNoAuthors)
              ELSE appendInvalidAuthors(m1, info.Authors)
        m3 == IF info.Description = "" THEN Append(m2, msgNoDescription) ELSE m2
        m4 == IF licenseMissing(info.License) THEN Append(m3, msgNoLicense)
              ELSE m3
    IN IF info.References # nil
       THEN appendInvalidReferences(m4, info.References[1])
       ELSE m4

RECURSIVE Join(_, _)
\* strings.Join(elems, sep)
Join(elems, sep) ==
    IF elems = <<>> THEN ""
    ELSE IF Len(elems) = 1 THEN elems[1]
    ELSE elems[1] \o sep \o Join(Tail(elems), sep)

\* the documents readRepoYAML is given: one that yaml.Unmarshal refuses, and
\* for every record the documents that unmarshal to it
Documents ==
    {[err |-> "yaml: did not find expected key", value |-> nil]}
    \cup {[err |-> NoErr, value |-> <<i>>] : i \in RepositoryYAMLs}

\* time.Now() of the call of readRepoYAML
now == "2026-11-03"

\* readRepoYAML of cmd/gindoid/reginfo.go: (record, error)
readRepoYAML(infoyml) ==
    IF infoyml.err # NoErr
    THEN [info |-> nil,
          err |-> "error while reading DOI info: " \o infoyml.err]
    ELSE LET yamlInfo == [infoyml.value[1] EXCEPT !.DateTime = now]
             missing == checkMissingValues(yamlInfo)
         IN IF Len(missing) > 0
            THEN [info |-> nil,
                  err |-> "The following required entries are not set: "
                             \o Join(missing, ", ")]
            ELSE [info |-> <<yamlInfo>>, err |-> NoErr]

\* readRepoYAML of the later revision (libgin.RepositoryYAML): no DateTime, the
\* messages joined with a blank
readRepoYAMLRepositoryYAML(infoyml) ==
    IF infoyml.err # NoErr
    THEN [info |-> nil,
          err |-> "error while reading DOI info: " \o infoyml.err]
    ELSE LET yamlInfo == infoyml.value[1]
             missing == checkMissingValues(yamlInfo)
         IN IF Len(missing) > 0
            THEN [info |-> nil, err |-> Join(missing, " ")]
            ELSE [info |-> <<yamlInfo>>, err |-> NoErr]

RECURSIVE appendInvalidReferencesDOIRegInfo(_, _)
\* hasValues: for _, ref := range s.References {
\*     if ref.Name == "" || ref.Reftype == "" { s.Missing = append(...) } }
appendInvalidReferencesDOIRegInfo(missing, refs) ==
    IF refs = <<>> THEN missing
    ELSE appendInvalidReferencesDOIRegInfo(
            IF Head(refs).Name = "" \/ Head(refs).Reftype = ""
            THEN Append(missing, msgInvalidReference)
            ELSE missing,
            Tail(refs))

\* hasValues(s *DOIRegInfo): the record as the call leaves it, and the result
hasValues(s) ==
    LET m0 == s.Missing
        m1 == IF s.Title = "" THEN Append(m0, msgNoTitle) ELSE m0
        m2 == IF Len(s.Authors) = 0 THEN Append(m1, msgNoAuthors)
              ELSE appendInvalidAuthors(m1, s.Authors)
        m3 == IF s.Description = "" THEN Append(m2, msgNoDescription) ELSE m2
        m4 == IF licenseMissing(s.License) THEN Append(m3, msgNoLicense) ELSE m3
        m5 == IF s.References # nil
              THEN appendInvalidReferencesDOIRegInfo(m4, s.References[1])
              ELSE m4
    IN [s |-> [s EXCEPT !.Missing = m5], ok |-> Len(m5) = 0]

\* a document arrives: either for readRepoYAML and checkMissingValues, or a
\* record for hasValues
InitValidate ==
    /\ InitDispatch
    /\ env.stops = 0 /\ ~env.faults
    /\ derived = <<>>
    /\ cwd = "/"
    /\ call = <<>>
    /\ \/ \E d \in Documents :
             meta = [kind |-> "RepositoryYAML", infoyml |-> d, info |-> d.value,
                     calls |-> 0, missing |-> <<>>, read |-> <<>>]
       \/ \E i \in DOIRegInfos :
             meta = [kind |-> "DOIRegInfo", entry |-> i, s |-> i, calls |-> 0,
                     ok |-> <<>>]

dispatchVars ==
    <<env, adm, jobs, jobQueue, hpc, hwq, workerPool, pc, cur, quitPending, stops,
      outcome, archFailed, finalized, registered, notifications, assignLog>>

\* missing := checkMissingValues(info) on the unmarshalled record
CheckMissingValues ==
    /\ meta.kind = "RepositoryYAML"
    /\ meta.info # nil
    /\ meta.calls < MaxValidations
    /\ meta' = [meta EXCEPT !.calls = @ + 1,
                            !.missing = Append(@, checkMissingValues(meta.info[1]))]
    /\ UNCHANGED <<dispatchVars, derived, cwd, call>>

\* readRepoYAML(infoyml), by both revisions of the function
ReadRepoYAML ==
    /\ meta.kind = "RepositoryYAML"
    /\ meta.read = <<>>
    /\ meta' = [meta EXCEPT !.read = <<readRepoYAML(meta.infoyml),
                                        readRepoYAMLRepositoryYAML(meta.infoyml)>>]
    /\ UNCHANGED <<dispatchVars, derived, cwd, call>>

\* hasValues(&doiInfo): s.Missing is appended to, the result is len(s.Missing) == 0
HasValues ==
    /\ meta.kind = "DOIRegInfo"
    /\ meta.calls < MaxValidations
    /\ meta' = [meta EXCEPT !.calls = @ + 1,
                            !.entry = meta.s,
                            !.s = hasValues(meta.s).s,
                            !.ok = Append(@, hasValues(meta.s).ok)]
    /\ UNCHANGED <<dispatchVars, derived, cwd, call>>

NextValidate == CheckMissingValues \/ ReadRepoYAML \/ HasValues

SpecValidate == InitValidate /\ [][NextValidate]_vars

\* ---------------------------------------------- properties of the validation
\* the authors of a record that lack a first name or a last name
Offending(authors) ==
    {i \in 1..Len(authors) : authors[i].FirstName = "" \/ authors[i].LastName = ""}

\* a reference names what it cites (a citation or a name) and has a type
Citable(ref) ==
    IF "Citation" \in DOMAIN ref THEN ref.Citation # "" \/ ref.Name # ""
    ELSE ref.Name # ""
Typed(ref) ==
    IF "RefType" \in DOMAIN ref THEN ref.RefType # "" ELSE ref.Reftype # ""
OffendingReferences(r) ==
    IF r.References = nil THEN {}
    ELSE {i \in 1..Len(r.References[1]) :
            ~Citable(r.References[1][i]) \/ ~Typed(r.References[1][i])}
LicenseComplete(r) ==
    r.License # nil /\ r.License[1].Name # "" /\ r.License[1].URL # ""

Repeat(msg, n) == [i \in 1..n |-> msg]
Count(list, msg) == Cardinality({i \in 1..Len(list) : list[i] = msg})

\* the messages of the five checks, each check on its own
Deficiencies(r) ==
    (IF r.Title = "" THEN <<msgNoTitle>> ELSE <<>>)
    \o (IF r.Authors = <<>> THEN <<msgNoAuthors>>
        ELSE Repeat(msgInvalidAuthors, Cardinality(Offending(r.Authors))))
    \o (IF r.Description = "" THEN <<msgNoDescription>> ELSE <<>>)
    \o (IF LicenseComplete(r) THEN <<>> ELSE <<msgNoLicense>>)
    \o Repeat(msgInvalidReference, Cardinality(OffendingReferences(r)))

Publishable(r) ==
    /\ r.Title # ""
    /\ Len(r.Authors) >= 1
    /\ Offending(r.Authors) = {}
    /\ r.Description # ""
    /\ LicenseComplete(r)
    /\ OffendingReferences(r) = {}

\* the results of the calls of checkMissingValues made so far
Checked == IF meta.kind = "RepositoryYAML" THEN meta.missing ELSE <<>>
\* hasValues has been called on the record
HasValuesCalled == meta.kind = "DOIRegInfo" /\ meta.calls > 0

\* C11: checkMissingValues runs all five checks and returns their messages in
\* the order title, authors, description, license, references: the result is
\* the concatenation of the messages of the failing checks. hasValues appends
\* the same messages, in the same order, to s.Missing.
AllChecksInOrder ==
    /\ \A k \in 1..Len(Checked) : Checked[k] = Deficiencies(meta.info[1])
    /\ HasValuesCalled =>
          meta.s.Missing = meta.entry.Missing \o Deficiencies(meta.entry)

\* a record that fails all five checks has been checked
AllFiveChecksFail ==
    /\ Len(Checked) > 0
    /\ meta.info[1].Title = ""
    /\ Offending(meta.info[1].Authors) # {}
    /\ meta.info[1].Description = ""
    /\ ~LicenseComplete(meta.info[1])
    /\ OffendingReferences(meta.info[1]) # {}
    /\ Len(Checked[1]) = 5

\* C12: the list of checkMissingValues is empty exactly for a publishable
\* record; a record without title, authors and license that is otherwise
\* complete yields exactly msgNoTitle, msgNoAuthors, msgNoLicense; readRepoYAML
\* returns the record exactly when the list is empty and otherwise an error
\* whose text holds every message of the list.
ValidatorExact ==
    /\ \A k \in 1..Len(Checked) :
          LET r == meta.info[1]
          IN /\ Checked[k] = <<>> <=> Publishable(r)
             /\ (/\ r.Title = "" /\ r.Authors = <<>> /\ ~LicenseComplete(r)
                 /\ r.Description # "" /\ OffendingReferences(r) = {})
                => Checked[k] = <<msgNoTitle, msgNoAuthors, msgNoLicense>>
    /\ (meta.kind = "RepositoryYAML" /\ meta.read # <<>>) =>
          IF meta.infoyml.err # NoErr
          THEN \A v \in 1..2 : meta.read[v].info = nil /\ meta.read[v].err # NoErr
          ELSE LET r == meta.info[1]
               IN IF Publishable(r)
                  THEN /\ meta.read[1] =
                             [info |-> <<[r EXCEPT !.DateTime = now]>>, err |-> NoErr]
                       /\ meta.read[2] = [info |-> <<r>>, err |-> NoErr]
                  ELSE /\ meta.read[1].info = nil
                       /\ meta.read[1].err =
                             "The following required entries are not set: "
                                \o Join(Deficiencies(r), ", ")
                       /\ meta.read[2].info = nil
                       /\ meta.read[2].err = Join(Deficiencies(r), " ")

\* readRepoYAML and checkMissingValues have run on a record that has no title,
\* no authors and no license and is otherwise complete
ThreeMessagesRecordRead ==
    /\ Len(Checked) > 0
    /\ meta.read # <<>>
    /\ meta.info # nil
    /\ meta.info[1].Title = "" /\ meta.info[1].Authors = <<>>
    /\ meta.info[1].License = nil
    /\ meta.info[1].Description # ""
    /\ meta.info[1].References # nil /\ meta.info[1].References[1] # <<>>
    /\ OffendingReferences(meta.info[1]) = {}

\* C13: for a non-empty author list the result holds msgInvalidAuthors once per
\* author without first or last name and no msgNoAuthors; for an empty author
\* list it holds msgNoAuthors once and no msgInvalidAuthors. hasValues adds the
\* messages to s.Missing in these numbers.
AuthorsReportedOnce ==
    /\ \A k \in 1..Len(Checked) :
          LET a == meta.info[1].Authors
          IN IF a = <<>>
             THEN /\ Count(Checked[k], msgNoAuthors) = 1
                  /\ Count(Checked[k], msgInvalidAuthors) = 0
             ELSE /\ Count(Checked[k], msgInvalidAuthors) = Cardinality(Offending(a))
                  /\ Count(Checked[k], msgNoAuthors) = 0
    /\ HasValuesCalled =>
          LET a == meta.entry.Authors
              added(m) == Count(meta.s.Missing, m) - Count(meta.entry.Missing, m)
          IN IF a = <<>>
             THEN added(msgNoAuthors) = 1 /\ added(msgInvalidAuthors) = 0
             ELSE /\ added(msgInvalidAuthors) = Cardinality(Offending(a))
                  /\ added(msgNoAuthors) = 0

\* a record with two offending authors, one of them without any name, checked
TwoOffendingAuthors ==
    /\ Len(Checked) > 0
    /\ Cardinality(Offending(meta.info[1].Authors)) = 2
    /\ \E i \in 1..2 : meta.info[1].Authors[i] = [FirstName |-> "", LastName |-> ""]
    /\ Count(Checked[1], msgInvalidAuthors) = 2

\* C14: msgInvalidReference is reported once for each reference that has
\* neither a citation nor a name, or has no type, and for no other reference; a
\* nil or empty reference list yields no such message. (The Reference that
\* hasValues reads has no citation: there a name and a type are required.)
ReferencesReportedOnce ==
    /\ \A k \in 1..Len(Checked) :
          Count(Checked[k], msgInvalidReference) =
             Cardinality(OffendingReferences(meta.info[1]))
    /\ HasValuesCalled =>
          Count(meta.s.Missing, msgInvalidReference)
             - Count(meta.entry.Missing, msgInvalidReference)
          = Cardinality(OffendingReferences(meta.entry))

\* checked: a reference with a type and only a citation next to one without type
CitationOnlyAccepted ==
    /\ Len(Checked) > 0
    /\ meta.info[1].References # nil
    /\ Len(meta.info[1].References[1]) = 2
    /\ \E i \in 1..2 :
          meta.info[1].References[1][i] = [RefType |-> "x", Name |-> "", Citation |-> "x"]
    /\ Cardinality(OffendingReferences(meta.info[1])) = 1
    /\ Count(Checked[1], msgInvalidReference) = 1

\* C15: validation leaves the record as it was and its list of messages
\* depends on the record's title, authors, description, license and references
\* alone: validating again returns the same list.
ValidationIsPure ==
    /\ \A k \in 1..Len(Checked) : Checked[k] = Checked[1]
    /\ HasValuesCalled =>
          /\ [meta.s EXCEPT !.Missing = <<>>] = [meta.entry EXCEPT !.Missing = <<>>]
          /\ meta.s.Missing = Deficiencies(meta.s)
          /\ meta.calls > 1 => meta.s.Missing = meta.entry.Missing

\* ======================================================== identifier derivation
\* largest number of calls of makeUUID in a run
MaxDerivations == 3

\* identifier := makeUUID(URI)
MakeUUID ==
    /\ Len(derived) < MaxDerivations
    /\ \E URI \in URIStrings : derived' = Append(derived, <<URI, makeUUID(URI)>>)
    /\ UNCHANGED <<dispatchVars, meta, cwd, call>>

InitIdentity == Init /\ env.stops = 0 /\ ~env.faults

NextIdentity == MakeUUID

SpecIdentity == InitIdentity /\ [][NextIdentity]_vars

md5hex ==
    [u \in URIStrings |->
        CASE u = "" ->
                "d41d8cd98f00b204e9800998ecf8427e"
          [] u = "INT/multielectrode_grasp" ->
                "a6e82cb01cf84a4a3fe2ef828180021f"
          [] u = "int/multielectrode_grasp" ->
                "93dad0fec56554cdb2b9e2280eb19fef"
          [] u = "INT/multielectrode_grasp/" ->
                "42a5392c9515c4a554ec56e0caa16bbb"
          [] u = "G-Node/Info" ->
                "3d02cb78d62b78bd0dae42363ebfe854"]

\* the keys of the legacy table
LegacyKeys ==
    {"INT/multielectrode_grasp", "ajkumaraswamy/HB-PAC_disinhibitory_network",
     "steffi/Kleineidam_et_al_2017", "Churan/Morris_et_al_Frontiers_2016",
     "fabee/efish_locking"}

\* C17: for a URI that is a key of the legacy table makeUUID returns the
\* identifier of the table; for every other string, also one that differs from
\* a key in case or by a trailing character, it returns the MD5 digest of the
\* string as 32 lower-case hexadecimal digits.
LegacyOverrideExact ==
    \A i \in 1..Len(derived) :
        IF derived[i][1] = "INT/multielectrode_grasp"
        THEN derived[i][2] = "f83565d148510fede8a277f660e1a419"
        ELSE /\ derived[i][1] \notin LegacyKeys
             /\ derived[i][2] = md5hex[derived[i][1]]
             /\ derived[i][2] # "f83565d148510fede8a277f660e1a419"

\* a key, the key in lower case and the key with a trailing slash were derived
KeyAndNearKeysDerived ==
    /\ Len(derived) = 3
    /\ derived[1][1] = "INT/multielectrode_grasp"
    /\ derived[2][1] = "int/multielectrode_grasp"
    /\ derived[3][1] = "INT/multielectrode_grasp/"

\* ================================================================= CloneRepo
\* largest number of statuses a clone or a content download sends
MaxStats == 2

\* strings.ToLower on the strings of the model
ToLower ==
    [u \in URIStrings |->
        CASE u = "INT/multielectrode_grasp" -> "int/multielectrode_grasp"
          [] u = "G-Node/Info" -> "g-node/info"
          [] u = "INT/multielectrode_grasp/" -> "int/multielectrode_grasp/"
          [] OTHER -> u]

\* the directory a clone of the repository path creates below the destination
RepoName ==
    [u \in {ToLower[x] : x \in URIs} |->
        CASE u = "int/multielectrode_grasp" -> "multielectrode_grasp"
          [] u = "g-node/info" -> "info"]

\* the directories that exist, besides the ones a clone creates
Dirs == {"/", "/srv/gindoid", "/data/doi", "/data/doi/a", "/data/doi/b"}

\* the errors a RepoFileStatus carries
StatErrs == {NoErr, "connection reset", "annex get failed"}

HasErr(stats) == \E i \in 1..Len(stats) : stats[i] # NoErr

\* what Session.CloneRepo does on clonechan: it sends the statuses; once chdir
\* of them are received, and none of these had an error, it changes the working
\* directory to the cloned repository (chdir = Len(stats) + 1: it never does);
\* it closes the channel at the end, or it hangs
CloneRuns ==
    {[stats |-> st, chdir |-> p, closes |-> cl] :
        st \in SeqUpTo(StatErrs, MaxStats), p \in 0..MaxStats + 1, cl \in BOOLEAN}

\* what Session.GetContent does on downloadchan
DownloadRuns ==
    {[stats |-> st, closes |-> cl] :
        st \in SeqUpTo(StatErrs, MaxStats), cl \in BOOLEAN}

\* the calls CloneRepo(URI, destdir, conf) and what they meet
CloneCalls ==
    {[pc |-> "getwd", URI |-> "G-Node/Info", destdir |-> d, getwdErr |-> g,
      clone |-> c, download |-> dl, entry |-> "", origdir |-> "",
      deferred |-> FALSE, moved |-> FALSE, got |-> <<0, 0>>,
      started |-> <<0, 0>>, ret |-> NoErr] :
        d \in {"/data/doi", "/data/missing"},
        g \in {NoErr, "getwd: no such file or directory"},
        c \in {r \in CloneRuns :
                 /\ r.chdir <= Len(r.stats) + 1
                 /\ r.chdir <= Len(r.stats) => ~HasErr(SubSeq(r.stats, 1, r.chdir))
                 /\ HasErr(r.stats) => r.closes},
        dl \in {r \in DownloadRuns : HasErr(r.stats) => r.closes}}

\* one call of CloneRepo is made
InitClone ==
    /\ InitDispatch
    /\ env.stops = 0 /\ ~env.faults
    /\ meta = NoMeta
    /\ derived = <<>>
    /\ cwd \in {"/", "/srv/gindoid"}
    /\ call \in {<<c>> : c \in CloneCalls}

\* origdir, err := os.Getwd(); if err != nil { return err }
Getwd(c) ==
    /\ call[c].pc = "getwd"
    /\ IF call[c].getwdErr # NoErr
       THEN call' = [call EXCEPT ![c].pc = "returned", ![c].entry = cwd,
                                 ![c].ret = call[c].getwdErr]
       ELSE call' = [call EXCEPT ![c].pc = "chdir", ![c].entry = cwd,
                                 ![c].origdir = cwd]
    /\ UNCHANGED <<dispatchVars, meta, derived, cwd>>

\* defer os.Chdir(origdir); err = os.Chdir(destdir); if err != nil { return err }
ChdirDestdir(c) ==
    /\ call[c].pc = "chdir"
    /\ IF call[c].destdir \in Dirs
       THEN /\ cwd' = call[c].destdir
            /\ call' = [call EXCEPT ![c].pc = "clone", ![c].deferred = TRUE]
       ELSE /\ cwd' = cwd
            /\ call' = [call EXCEPT ![c].pc = "return", ![c].deferred = TRUE,
                                    ![c].ret = "chdir: no such file or directory"]
    /\ UNCHANGED <<dispatchVars, meta, derived>>

\* clonechan := make(chan git.RepoFileStatus); go conf.GIN.Session.CloneRepo(...)
StartClone(c) ==
    /\ call[c].pc = "clone"
    /\ call' = [call EXCEPT ![c].pc = "rangeClone", ![c].started[1] = @ + 1]
    /\ UNCHANGED <<dispatchVars, meta, derived, cwd>>

\* Session.CloneRepo changes the working directory to the cloned repository
LibraryChdir(c) ==
    /\ call[c].started[1] > 0
    /\ ~call[c].moved
    /\ call[c].got[1] = call[c].clone.chdir
    /\ cwd' = call[c].destdir \o "/" \o RepoName[ToLower[call[c].URI]]
    /\ call' = [call EXCEPT ![c].moved = TRUE]
    /\ UNCHANGED <<dispatchVars, meta, derived>>

\* mutation: an error status is logged and the loop goes on
RecvCloneStatNoAbort(c) ==
    /\ call[c].pc = "rangeClone"
    /\ call[c].got[1] < Len(call[c].clone.stats)
    /\ call[c].got[1] = call[c].clone.chdir => call[c].moved
    /\ LET stat == call[c].clone.stats[call[c].got[1] + 1]
       IN call' = [call EXCEPT ![c].got[1] = @ + 1,
                               ![c].ret = IF stat # NoErr THEN stat ELSE @]
    /\ UNCHANGED <<dispatchVars, meta, derived, cwd>>

\* for stat := range clonechan { if stat.Err != nil { return stat.Err } }: the
\* next status is sent by Session.CloneRepo and received by the loop
RecvCloneStat(c) ==
    /\ call[c].pc = "rangeClone"
    /\ call[c].got[1] < Len(call[c].clone.stats)
    /\ call[c].got[1] = call[c].clone.chdir => call[c].moved
    /\ LET stat == call[c].clone.stats[call[c].got[1] + 1]
       IN IF stat # NoErr
          THEN call' = [call EXCEPT ![c].got[1] = @ + 1,
                                    ![c].pc = "return", ![c].ret = stat]
          ELSE call' = [call EXCEPT ![c].got[1] = @ + 1]
    /\ UNCHANGED <<dispatchVars, meta, derived, cwd>>

\* Session.CloneRepo closes clonechan and the range loop ends
CloneClosed(c) ==
    /\ call[c].pc = "rangeClone"
    /\ call[c].got[1] = Len(call[c].clone.stats)
    /\ call[c].got[1] = call[c].clone.chdir => call[c].moved
    /\ call[c].clone.closes
    /\ call' = [call EXCEPT ![c].pc = "download"]
    /\ UNCHANGED <<dispatchVars, meta, derived, cwd>>

\* downloadchan := make(chan git.RepoFileStatus); go conf.GIN.Session.GetContent(...)
StartGetContent(c) ==
    /\ call[c].pc = "download"
    /\ call' = [call EXCEPT ![c].pc = "rangeDownload", ![c].started[2] = @ + 1]
    /\ UNCHANGED <<dispatchVars, meta, derived, cwd>>

\* for stat := range downloadchan { if stat.Err != nil { return stat.Err } }
RecvDownloadStat(c) ==
    /\ call[c].pc = "rangeDownload"
    /\ call[c].got[2] < Len(call[c].download.stats)
    /\ LET stat == call[c].download.stats[call[c].got[2] + 1]
       IN IF stat # NoErr
          THEN call' = [call EXCEPT ![c].got[2] = @ + 1,
                                    ![c].pc = "return", ![c].ret = stat]
          ELSE call' = [call EXCEPT ![c].got[2] = @ + 1]
    /\ UNCHANGED <<dispatchVars, meta, derived, cwd>>

\* Session.GetContent closes downloadchan, the range loop ends: return nil
DownloadClosed(c) ==
    /\ call[c].pc = "rangeDownload"
    /\ call[c].got[2] = Len(call[c].download.stats)
    /\ call[c].download.closes
    /\ call' = [call EXCEPT ![c].pc = "return", ![c].ret = NoErr]
    /\ UNCHANGED <<dispatchVars, meta, derived, cwd>>

\* mutation: the function returns without running the deferred call
ReturnNoDefer(c) ==
    /\ call[c].pc = "return"
    /\ call' = [call EXCEPT ![c].pc = "returned"]
    /\ UNCHANGED <<dispatchVars, meta, derived, cwd>>

\* the return: the deferred os.Chdir(origdir) runs
Return(c) ==
    /\ call[c].pc = "return"
    /\ cwd' = IF call[c].deferred THEN call[c].origdir ELSE cwd
    /\ call' = [call EXCEPT ![c].pc = "returned"]
    /\ UNCHANGED <<dispatchVars, meta, derived>>

NextClone ==
    \/ \E c \in DOMAIN call : Getwd(c)
    \/ \E c \in DOMAIN call : ChdirDestdir(c)
    \/ \E c \in DOMAIN call : StartClone(c)
    \/ \E c \in DOMAIN call : LibraryChdir(c)
    \/ \E c \in DOMAIN call : RecvCloneStat(c)
    \/ \E c \in DOMAIN call : CloneClosed(c)
    \/ \E c \in DOMAIN call : StartGetContent(c)
    \/ \E c \in DOMAIN call : RecvDownloadStat(c)
    \/ \E c \in DOMAIN call : DownloadClosed(c)
    \/ \E c \in DOMAIN call : Return(c)

SpecClone == InitClone /\ [][NextClone]_vars

\* every goroutine that can take a step is scheduled: the caller of CloneRepo
\* and the goroutines of Session.CloneRepo and Session.GetContent
FairSpecClone == SpecClone /\ WF_vars(NextClone)

\* ---------------------------------------------------------- CloneRepo claims
Returned(c) == call[c].pc = "returned"

\* the position of the first status with an error, 0 if there is none
FirstErrAt(stats) ==
    IF HasErr(stats)
    THEN CHOOSE i \in 1..Len(stats) :
            /\ stats[i] # NoErr
            /\ \A j \in 1..(i - 1) : stats[j] = NoErr
    ELSE 0

\* C18: when a single call of CloneRepo has returned, on whichever path (nil,
\* Getwd failed, Chdir failed, clone error, download error), the working
\* directory of the process is the one it had when CloneRepo was called
WorkingDirectoryRestored ==
    \A c \in DOMAIN call : Returned(c) => cwd = call[c].entry

\* a call returned a clone error after the clone had moved the process into the
\* cloned repository
ReturnedCloneErrorAfterChdir ==
    \E c \in DOMAIN call :
        /\ Returned(c)
        /\ call[c].moved
        /\ HasErr(call[c].clone.stats)
        /\ call[c].ret = call[c].clone.stats[FirstErrAt(call[c].clone.stats)]
        /\ call[c].entry = "/srv/gindoid"

\* C19: CloneRepo stops at the first status with an error and returns that
\* error: no status after it is received, a clone error means GetContent is
\* never started, neither Session.CloneRepo nor GetContent is started twice,
\* and nil is returned only when both channels were closed after statuses
\* without error
AbortsOnFirstError ==
    \A c \in DOMAIN call :
        LET cs == call[c].clone.stats
            ds == call[c].download.stats
        IN /\ call[c].started[1] <= 1
           /\ call[c].started[2] <= 1
           /\ HasErr(cs) =>
                /\ call[c].got[1] <= FirstErrAt(cs)
                /\ call[c].started[2] = 0
                /\ call[c].got[2] = 0
           /\ HasErr(ds) => call[c].got[2] <= FirstErrAt(ds)
           /\ Returned(c) /\ call[c].started[1] = 1 /\ HasErr(cs) =>
                /\ call[c].ret = cs[FirstErrAt(cs)]
                /\ call[c].got[1] = FirstErrAt(cs)
           /\ Returned(c) /\ call[c].started[2] = 1 /\ HasErr(ds) =>
                /\ call[c].ret = ds[FirstErrAt(ds)]
                /\ call[c].got[2] = FirstErrAt(ds)
           /\ Returned(c) /\ call[c].ret = NoErr =>
                /\ ~HasErr(cs) /\ call[c].clone.closes
                /\ ~HasErr(ds) /\ call[c].download.closes
                /\ call[c].got = <<Len(cs), Len(ds)>>
                /\ call[c].started = <<1, 1>>

\* a call returned the error of the first clone status while a second status
\* was still to come, and GetContent was not started
ReturnedAtFirstCloneError ==
    \E c \in DOMAIN call :
        /\ Returned(c)
        /\ Len(call[c].clone.stats) = 2
        /\ call[c].clone.stats[1] # NoErr
        /\ call[c].ret = call[c].clone.stats[1]
        /\ call[c].got = <<1, 0>>
        /\ call[c].started = <<1, 0>>

\* the call waits for a status on a channel that will carry no further status
\* and will not be closed
Hung(c) ==
    \/ /\ call[c].pc = "rangeClone"
       /\ call[c].got[1] = Len(call[c].clone.stats)
       /\ ~call[c].clone.closes
    \/ /\ call[c].pc = "rangeDownload"
       /\ call[c].got[2] = Len(call[c].download.stats)
       /\ ~call[c].download.closes

\* C20: a call of CloneRepo that waits on a status channel which neither
\* carries an error nor is closed still returns eventually, with an error
CloneRepoTimesOut ==
    \A c \in {1} : Hung(c) ~> (Returned(c) /\ call[c].ret # NoErr)

\* =============================================================== author lists
\* longest author list
MaxCreators == 3

\* Creator.Name of the model
CreatorNames == {"Doe, Jane", "Roe,Rick", "Plato"}

\* strings.SplitN(s, ",", 2) on these names
SplitN ==
    [n \in CreatorNames |->
        CASE n = "Doe, Jane" -> <<"Doe", " Jane">>
          [] n = "Roe,Rick" -> <<"Roe", "Rick">>
          [] n = "Plato" -> <<"Plato">>]

\* strings.TrimSpace on the parts of the names
TrimSpace ==
    [t \in {"Doe", " Jane", "Roe", "Rick", "Plato"} |->
        IF t = " Jane" THEN "Jane" ELSE t]

\* fmt's %d for the affiliation numbers
Itoa ==
    [n \in 0..9 |->
        CASE n = 0 -> "0" [] n = 1 -> "1" [] n = 2 -> "2" [] n = 3 -> "3"
          [] n = 4 -> "4" [] n = 5 -> "5" [] n = 6 -> "6" [] n = 7 -> "7"
          [] n = 8 -> "8" [] n = 9 -> "9"]

\* fmt's %q for the strings of the model, none of which needs an escape
Quote(str) == "\"" \o str \o "\""

\* libgin.Creator: Identifier is nil or points to an identifier
Creators ==
    [Name : CreatorNames, Affiliation : {"", "INM-6"},
     Identifier : {nil, <<[ID |-> "0000-0002-5947-9939",
                          SchemeURI |-> "https://orcid.org/"]>>}]

\* Author of the DOIRegInfo that GetCitation reads
AuthorsDOIRegInfo == [FirstName : {"", "Jane", "Rick"}, LastName : {"Doe", "Roe"}]

\* string(auth.FirstName[0])
FirstLetter ==
    [f \in {"Jane", "Rick"} |-> IF f = "Jane" THEN "J" ELSE "R"]

\* mutation: the names are written into the list from its end
FormatAuthorListReversed(md) ==
    Join([idx \in 1..Len(md.Creators) |->
            md.Creators[Len(md.Creators) + 1 - idx].Name], ", ")

\* FormatAuthorList(md): names[idx] = author.Name; strings.Join(names, ", ")
FormatAuthorList(md) ==
    Join([idx \in 1..Len(md.Creators) |-> md.Creators[idx].Name], ", ")

RECURSIVE affiliationMap(_, _)
\* the first loop of AuthorBlock over authors[1..n]: affiliation name -> number
affiliationMap(authors, n) ==
    IF n = 0 THEN << >>
    ELSE LET m == affiliationMap(authors, n - 1)
             a == authors[n].Affiliation
         IN IF a \in DOMAIN m THEN m
            ELSE [x \in DOMAIN m \cup {a} |->
                    IF x \in DOMAIN m THEN m[x]
                    ELSE IF a # "" THEN Cardinality(DOMAIN m) + 1 ELSE 0]

\* one name element of AuthorBlock, for the author at idx
nameElement(authors, idx) ==
    LET author == authors[idx]
        afm == affiliationMap(authors, Len(authors))
        id == IF author.Identifier # nil THEN author.Identifier[1].ID ELSE ""
        url == IF author.Identifier # nil
               THEN author.Identifier[1].SchemeURI \o id ELSE ""
        namesplit == SplitN[author.Name]
        name == IF Len(namesplit) = 2
                THEN TrimSpace[namesplit[2]] \o " " \o TrimSpace[namesplit[1]]
                ELSE author.Name
        affiliationSup ==
            IF author.Affiliation # "" /\ Cardinality(DOMAIN afm) > 1
            THEN "<sup>" \o Itoa[afm[author.Affiliation]] \o "</sup>"
            ELSE ""
    IN "<span itemprop=\"author\" itemscope itemtype=\"http://schema.org/Person\"><a href="
       \o Quote(url) \o " itemprop=\"url\"><span itemprop=\"name\">" \o name
       \o "</span></a><meta itemprop=\"affiliation\" content="
       \o Quote(author.Affiliation) \o " /><meta itemprop=\"identifier\" content="
       \o Quote(id) \o ">" \o affiliationSup \o "</span>"

\* mutation: an author equal to an earlier one is left out
nameElementsDistinct(authors) ==
    LET keep == {i \in 1..Len(authors) : \A j \in 1..(i - 1) : authors[j] # authors[i]}
        nth(k) == CHOOSE i \in keep : Cardinality({j \in keep : j <= i}) = k
    IN [k \in 1..Cardinality(keep) |-> nameElement(authors, nth(k))]

\* nameElements of AuthorBlock after its second loop
nameElements(authors) ==
    [idx \in 1..Len(authors) |-> nameElement(authors, idx)]

RECURSIVE affiliationLines(_, _, _)
\* the third loop of AuthorBlock, from number idx on, lines being written so far
affiliationLines(authors, idx, lines) ==
    LET afm == affiliationMap(authors, Len(authors))
        named == {a \in DOMAIN afm : afm[a] = idx}
    IN IF named = {} THEN lines
       ELSE LET affiliation == CHOOSE a \in named : TRUE
                supstr == IF Cardinality(DOMAIN afm) > 1
                          THEN "<sup>" \o Itoa[idx] \o "</sup>" ELSE ""
            IN affiliationLines(authors, idx + 1,
                    lines \o "\t<li>" \o supstr \o affiliation \o "</li>\n")

\* AuthorBlock(authors)
AuthorBlock(authors) ==
    "<span class=\"doi author\" >\n" \o Join(nameElements(authors), ",\n")
    \o "\n</span>" \o "\n"
    \o affiliationLines(authors, 1, "<ol class=\"doi itemlist\">\n") \o "</ol>"

RECURSIVE citationAuthorsSorted(_)
\* mutation: the authors are taken by last name
citationAuthorsSorted(Auths) ==
    IF Auths = <<>> THEN ""
    ELSE LET i == CHOOSE k \in 1..Len(Auths) :
                    \A j \in 1..Len(Auths) :
                        \/ Auths[k].LastName = "Doe"
                        \/ Auths[j].LastName = "Roe"
             auth == Auths[i]
             rest == [k \in 1..(Len(Auths) - 1) |->
                        IF k < i THEN Auths[k] ELSE Auths[k + 1]]
         IN (IF Len(auth.FirstName) > 0
             THEN auth.LastName \o " " \o FirstLetter[auth.FirstName] \o ", "
             ELSE auth.LastName \o ", ")
            \o citationAuthorsSorted(rest)

RECURSIVE citationAuthors(_)
\* the loop of GetCitation: authors += ... for each of c.Authors
citationAuthors(Auths) ==
    IF Auths = <<>> THEN ""
    ELSE LET auth == Auths[Len(Auths)]
         IN citationAuthors(SubSeq(Auths, 1, Len(Auths) - 1))
            \o (IF Len(auth.FirstName) > 0
                THEN auth.LastName \o " " \o FirstLetter[auth.FirstName] \o ", "
                ELSE auth.LastName \o ", ")

\* c.Year() of the registration time
Year == "2026"

\* c.GetCitation()
GetCitation(c) ==
    citationAuthors(c.Authors) \o " (" \o Year \o ") " \o c.Title
    \o ". G-Node. doi:" \o c.DOI

\* a list of creators, or a record with authors, and nothing formatted yet
InitAuthors ==
    /\ InitDispatch
    /\ env.stops = 0 /\ ~env.faults
    /\ derived = <<>>
    /\ cwd = "/"
    /\ call = <<>>
    /\ \/ \E cs \in SeqUpTo(Creators, MaxCreators) :
             meta = [kind |-> "Creators", md |-> [Creators |-> cs],
                     list |-> nil, elements |-> nil, block |-> nil]
       \/ \E as \in SeqUpTo(AuthorsDOIRegInfo, MaxCreators) :
             meta = [kind |-> "Citation",
                     c |-> [Authors |-> as, Title |-> "x", DOI |-> "10.12751/g-node.4bcdef"],
                     authors |-> nil, citation |-> nil]

\* the template calls FormatAuthorList
CallFormatAuthorList ==
    /\ meta.kind = "Creators"
    /\ meta.list = nil
    /\ meta' = [meta EXCEPT !.list = <<FormatAuthorList(meta.md)>>]
    /\ UNCHANGED <<dispatchVars, derived, cwd, call>>

\* the template calls AuthorBlock
CallAuthorBlock ==
    /\ meta.kind = "Creators"
    /\ meta.block = nil
    /\ meta' = [meta EXCEPT !.elements = <<nameElements(meta.md.Creators)>>,
                            !.block = <<AuthorBlock(meta.md.Creators)>>]
    /\ UNCHANGED <<dispatchVars, derived, cwd, call>>

\* the template calls GetCitation
CallGetCitation ==
    /\ meta.kind = "Citation"
    /\ meta.citation = nil
    /\ meta' = [meta EXCEPT !.authors = <<citationAuthors(meta.c.Authors)>>,
                            !.citation = <<GetCitation(meta.c)>>]
    /\ UNCHANGED <<dispatchVars, derived, cwd, call>>

NextAuthors ==
    \/ CallFormatAuthorList
    \/ CallAuthorBlock
    \/ CallGetCitation

SpecAuthors == InitAuthors /\ [][NextAuthors]_vars

\* ----------------------------------------------------------- author list claims
Prefix(seq, k) == SubSeq(seq, 1, k)

\* the name AuthorBlock displays: "First Last" for "Last, First"
DisplayName ==
    [n \in CreatorNames |->
        CASE n = "Doe, Jane" -> "Jane Doe"
          [] n = "Roe,Rick" -> "Rick Roe"
          [] n = "Plato" -> "Plato"]

\* the name elements that show the creator a, with any affiliation number
ElementsOf(a) ==
    LET id == IF a.Identifier = nil THEN "" ELSE a.Identifier[1].ID
        url == IF a.Identifier = nil THEN "" ELSE "https://orcid.org/" \o id
    IN {"<span itemprop=\"author\" itemscope itemtype=\"http://schema.org/Person\">"
        \o "<a href=\"" \o url \o "\" itemprop=\"url\"><span itemprop=\"name\">"
        \o DisplayName[a.Name] \o "</span></a><meta itemprop=\"affiliation\" content=\""
        \o a.Affiliation \o "\" /><meta itemprop=\"identifier\" content=\"" \o id
        \o "\">" \o sup \o "</span>" :
            sup \in {""} \cup {"<sup>" \o Itoa[n] \o "</sup>" : n \in 1..9}}

\* the entry of one author in the citation: last name and initial
CitationEntry(auth) ==
    auth.LastName
    \o (CASE auth.FirstName = "Jane" -> " J"
          [] auth.FirstName = "Rick" -> " R"
          [] auth.FirstName = "" -> "")
    \o ", "

\* C21: the formatted author list, the name elements of the author block and
\* the author part of the citation have one entry per author, in the order of
\* the source list: the output for the first k + 1 authors is the output for
\* the first k followed by the entry of author k + 1, and name element i shows
\* author i
AuthorOrderPreserved ==
    /\ meta.kind = "Creators" /\ meta.list # nil =>
         LET cs == meta.md.Creators
             F(k) == FormatAuthorList([Creators |-> Prefix(cs, k)])
         IN /\ meta.list[1] = F(Len(cs))
            /\ F(0) = ""
            /\ Len(cs) >= 1 => F(1) = cs[1].Name
            /\ \A k \in 1..(Len(cs) - 1) : F(k + 1) = F(k) \o ", " \o cs[k + 1].Name
    /\ meta.kind = "Creators" /\ meta.block # nil =>
         LET cs == meta.md.Creators
             els == meta.elements[1]
         IN /\ Len(els) = Len(cs)
            /\ \A i \in 1..Len(cs) : els[i] \in ElementsOf(cs[i])
    /\ meta.kind = "Citation" /\ meta.citation # nil =>
         LET as == meta.c.Authors
             G(k) == citationAuthors(Prefix(as, k))
         IN /\ meta.authors[1] = G(Len(as))
            /\ G(0) = ""
            /\ \A k \in 0..(Len(as) - 1) : G(k + 1) = G(k) \o CitationEntry(as[k + 1])
            /\ meta.citation[1] =
                 G(Len(as)) \o " (2026) x. G-Node. doi:10.12751/g-node.4bcdef"

\* three creators, the first and the third the same, the first after the second
\* in the alphabet, were formatted as a list and as an author block
RepeatedUnsortedCreatorsFormatted ==
    /\ meta.kind = "Creators"
    /\ meta.list # nil
    /\ meta.block # nil
    /\ Len(meta.md.Creators) = 3
    /\ meta.md.Creators[1] = meta.md.Creators[3]
    /\ meta.md.Creators[1].Name = "Roe,Rick"
    /\ meta.md.Creators[2].Name = "Doe, Jane"
    /\ meta.list[1] = "Roe,Rick, Doe, Jane, Roe,Rick"

\* ================================================================ ValidDOIFile
\* what getDOIFile and yaml.Unmarshal make of the datacite.yml of a repository:
\* the request fails, the body does not unmarshal, or it fills a record
DOIFiles ==
    {[err |-> "could not get DOI file: 404 Not Found", yaml |-> NoErr, value |-> nil],
     [err |-> NoErr, yaml |-> "yaml: did not find expected key", value |-> nil]}
    \cup {[err |-> NoErr, yaml |-> NoErr, value |-> <<i>>] : i \in DOIRegInfos}

\* DOIRegInfo{}
ZeroDOIRegInfo ==
    [Title |-> "", Authors |-> <<>>, Description |-> "", License |-> nil,
     References |-> nil, DateTime |-> "0001-01-01", Missing |-> <<>>]

\* mutation: the record for a file that does not unmarshal has no reason
ValidDOIFileNoReason(in) ==
    IF in.err # NoErr THEN [valid |-> FALSE, info |-> nil]
    ELSE IF in.yaml # NoErr
    THEN [valid |-> FALSE, info |-> <<ZeroDOIRegInfo>>]
    ELSE LET r == hasValues([in.value[1] EXCEPT !.DateTime = now])
         IN [valid |-> r.ok, info |-> <<r.s>>]

\* ValidDOIFile(URI, conf), in being what getDOIFile and yaml.Unmarshal give
ValidDOIFile(in) ==
    IF in.err # NoErr THEN [valid |-> FALSE, info |-> nil]
    ELSE IF in.yaml # NoErr
    THEN [valid |-> FALSE,
          info |-> <<[ZeroDOIRegInfo EXCEPT !.Missing = <<in.yaml>>]>>]
    ELSE LET r == hasValues([in.value[1] EXCEPT !.DateTime = now])
         IN [valid |-> r.ok, info |-> <<r.s>>]

\* a repository with its datacite.yml, not yet looked at
InitDOIFile ==
    /\ InitDispatch
    /\ env.stops = 0 /\ ~env.faults
    /\ derived = <<>>
    /\ cwd = "/"
    /\ call = <<>>
    /\ \E f \in DOIFiles : meta = [kind |-> "DOIFile", in |-> f, result |-> nil]

\* ok, doiInfo := ValidDOIFile(URI, conf)
CallValidDOIFile ==
    /\ meta.kind = "DOIFile"
    /\ meta.result = nil
    /\ meta' = [meta EXCEPT !.result = <<ValidDOIFile(meta.in)>>]
    /\ UNCHANGED <<dispatchVars, derived, cwd, call>>

NextDOIFile == CallValidDOIFile

SpecDOIFile == InitDOIFile /\ [][NextDOIFile]_vars

\* C22: a record that ValidDOIFile returns is reported valid exactly when its
\* Missing list is empty: with valid = false the list has at least one reason,
\* with valid = true it has none
ValidIffNothingMissing ==
    meta.kind = "DOIFile" /\ meta.result # nil /\ meta.result[1].info # nil =>
        (meta.result[1].valid <=> meta.result[1].info[1].Missing = <<>>)

\* ValidDOIFile returned a record for a file that did not unmarshal, with the
\* error as its one reason
UnparseableFileHasReason ==
    /\ meta.kind = "DOIFile"
    /\ meta.in.yaml # NoErr
    /\ meta.result # nil
    /\ ~meta.result[1].valid
    /\ meta.result[1].info # nil
    /\ meta.result[1].info[1].Missing = <<meta.in.yaml>>

\* ================================================================ LocalStorage
\* filepath.Join(elem...)
PathJoin(elems) == Join(elems, "/")

\* the file system after content is written to the file at path; a directory
\* is a path with the content "dir"
WriteFile(fs, path, content) ==
    [f \in DOMAIN fs \cup {path} |-> IF f = path THEN content ELSE fs[f]]

\* the jobs TestPut and the workers hand to Put, and the names given to prepDir
StorageJobs ==
    [Name : {"123", "test1", "4bcdef"}, Source : {"nowhere", "G-Node/Info"}]

\* mutation: the directory is made and left open
prepDirOpen(fs, Path, name) == WriteFile(fs, PathJoin(<<Path, name>>), "dir")

\* ls.prepDir(name, info): the target directory is made below ls.Path and gets
\* an .htaccess that denies all access
prepDir(fs, Path, name) ==
    WriteFile(WriteFile(fs, PathJoin(<<Path, name>>), "dir"),
              PathJoin(<<Path, name, ".htaccess">>), "deny from all")

\* mutation: the archive is put next to the directory of the job
archivePathAtRoot(Path, name) == PathJoin(<<Path, name \o ".zip">>)

\* where Put writes the archive of the job: <Path>/<Name>/<Name>.zip
archivePath(Path, name) == PathJoin(<<Path, name, name \o ".zip">>)

\* a LocalStorage on a fresh directory, as ioutil.TempDir returns it, and one
\* call on it: prepDir(name, nil) or Put(job); the data source and the writes
\* of the archive and the record answer as the environment says
InitStorage ==
    /\ InitDispatch
    /\ env.stops = 0 /\ ~env.faults
    /\ derived = <<>>
    /\ cwd = "/"
    /\ call = <<>>
    /\ \E P \in {"/tmp/TestGin1", "/srv/doi"}, job \in StorageJobs,
          op \in {"prepDir", "Put"}, get \in {NoErr, "connection reset"},
          put \in {NoErr, "storage error"} :
            meta = [kind |-> "LocalStorage", op |-> op, pc |-> "prepDir",
                    Path |-> P, job |-> job, getErr |-> get, putErr |-> put,
                    fs |-> [f \in {P} |-> "dir"], calls |-> <<>>,
                    written |-> <<>>, err |-> NoErr]

\* the first step of Put, and all of prepDir
PrepDir ==
    /\ meta.kind = "LocalStorage"
    /\ meta.pc = "prepDir"
    /\ meta' = [meta EXCEPT
                  !.fs = prepDir(meta.fs, meta.Path, meta.job.Name),
                  !.written = Append(@, "prepDir"),
                  !.pc = IF meta.op = "prepDir" THEN "returned" ELSE "get"]
    /\ UNCHANGED <<dispatchVars, derived, cwd, call>>

\* Put, Archiving: the data source is asked for the repository of job.Source;
\* its error ends Put
SourceGet ==
    /\ meta.kind = "LocalStorage"
    /\ meta.pc = "get"
    /\ meta' = [meta EXCEPT
                  !.calls = Append(@, meta.job.Source),
                  !.err = meta.getErr,
                  !.pc = IF meta.getErr # NoErr THEN "returned" ELSE "zip"]
    /\ UNCHANGED <<dispatchVars, derived, cwd, call>>

\* Put, Archiving: the archive <Name>.zip is written into the target directory
WriteArchive ==
    /\ meta.kind = "LocalStorage"
    /\ meta.pc = "zip"
    /\ IF meta.putErr # NoErr
       THEN meta' = [meta EXCEPT !.err = meta.putErr, !.pc = "returned"]
       ELSE meta' = [meta EXCEPT
                       !.fs = WriteFile(meta.fs,
                                 archivePath(meta.Path, meta.job.Name), "archive"),
                       !.written = Append(@, "zip"),
                       !.pc = "record"]
    /\ UNCHANGED <<dispatchVars, derived, cwd, call>>

\* Put, Emitting and Finalizing: the registration record doi.xml is written
WriteRecord ==
    /\ meta.kind = "LocalStorage"
    /\ meta.pc = "record"
    /\ meta' = [meta EXCEPT
                  !.fs = WriteFile(meta.fs,
                            PathJoin(<<meta.Path, meta.job.Name, "doi.xml">>),
                            "record"),
                  !.written = Append(@, "doi.xml"),
                  !.pc = "returned"]
    /\ UNCHANGED <<dispatchVars, derived, cwd, call>>

NextStorage ==
    \/ PrepDir
    \/ SourceGet
    \/ WriteArchive
    \/ WriteRecord

SpecStorage == InitStorage /\ [][NextStorage]_vars

\* ------------------------------------------------------- LocalStorage claims
\* the file fn is there in the directory of the job, as fileThere opens it
FileThere(fn) ==
    (meta.Path \o "/" \o meta.job.Name \o "/" \o fn) \in DOMAIN meta.fs

PreparedDirectoryDeniesAccess ==
    meta.kind = "LocalStorage" =>
        LET dir == meta.Path \o "/" \o meta.job.Name
            denied == /\ dir \in DOMAIN meta.fs
                      /\ meta.fs[dir] = "dir"
                      /\ (dir \o "/.htaccess") \in DOMAIN meta.fs
                      /\ meta.fs[dir \o "/.htaccess"] = "deny from all"
        IN /\ meta.pc # "prepDir" => denied
           /\ meta.op = "prepDir" /\ meta.pc = "returned" => meta.err = NoErr
           /\ (\E f \in DOMAIN meta.fs : f \notin {meta.Path, dir}) => denied

\* TestPrepDir: prepDir("test1", nil) has returned
PrepDirOfTestPrepDirReturned ==
    /\ meta.kind = "LocalStorage"
    /\ meta.op = "prepDir"
    /\ meta.pc = "returned"
    /\ meta.job.Name = "test1"
    /\ meta.fs[meta.Path \o "/test1/.htaccess"] = "deny from all"

\* ======================================================= worker pool and queue
\* the worker waits in the select of its loop for a job or a quit request
Idle(w) == pc[w] = "select" /\ cur[w] = 0

\* C25: the worker pool holds at most maxWorkers job channels, the channel of a
\* worker at most once and only while that worker is idle; so the send of a
\* worker's channel into the pool never has to wait
PoolHoldsIdleWorkersOnce ==
    /\ Len(workerPool) <= maxWorkers
    /\ \A w \in Workers :
          Cardinality({i \in 1..Len(workerPool) : workerPool[i] = w}) <= 1
    /\ \A w \in Workers : InPool(w) => Idle(w)
    /\ \A w \in Workers : pc[w] = "register" => Len(workerPool) < maxWorkers

\* the service as main starts it and leaves it, under load: stop() is called
\* on no worker and every Put returns
InitRunning == Init /\ env.stops = 0 /\ ~env.faults

NextRunning ==
    \/ \E a \in Admissions : Admit(a)
    \/ \E a \in Admissions : Enqueue(a)
    \/ \E a \in Admissions : Respond(a)
    \/ DispatchRecv
    \/ \E j \in JobIds : HandoffFetch(j)
    \/ \E w \in Workers : WorkerRegister(w)
    \/ \E w \in Workers : WorkerRecv(w)
    \/ \E w \in Workers : PutArchive(w)
    \/ \E w \in Workers : PutFinalize(w)

SpecRunning == InitRunning /\ [][NextRunning]_vars

\* The scheduler runs every goroutine that can take a step, and every call of
\* Storage.Put returns. The goroutines that wait to receive from the worker
\* pool are served in the order they came, so none of them is passed over for
\* ever.
FairSpecRunning ==
    /\ SpecRunning
    /\ WF_vars(DispatchRecv)
    /\ \A j \in JobIds : SF_vars(HandoffFetch(j))
    /\ \A w \in Workers : WF_vars(WorkerRegister(w))
    /\ \A w \in Workers : WF_vars(WorkerRecv(w))
    /\ \A w \in Workers : WF_vars(PutArchive(w))
    /\ \A w \in Workers : WF_vars(PutFinalize(w))

Queued(j) == \E i \in 1..Len(jobQueue) : jobQueue[i] = j

\* C26: with no worker stopped and every Put returning, every job put on the
\* job queue is in the end received by a worker and executed to Succeeded or
\* Failed
EveryJobExecuted ==
    \A j \in JobIds : Queued(j) ~> (Cardinality(Received(j)) = 1 /\ Terminal(j))

\* more jobs than there are workers were executed: one of them had to wait for
\* a worker to come back to the pool
JobBeyondWorkersExecuted ==
    /\ \A j \in 1..(maxWorkers + 1) : Terminal(j)
    /\ \E i \in 1..Len(assignLog), k \in 1..Len(assignLog) :
          i < k /\ assignLog[i][2] = assignLog[k][2]

\* C27: once a worker has taken a quit request and left its loop, its job
\* channel is neither in the worker pool nor held by a hand-off goroutine, so
\* no hand-off goroutine waits to send a job to a worker that will never
\* receive it
StoppedWorkerNotObtainable ==
    \A w \in Workers :
        pc[w] = "stopped" =>
            /\ ~InPool(w)
            /\ \A j \in JobIds : ~(hpc[j] = "send" /\ hwq[j] = w)

\* the admitted jobs no worker has received yet: in the buffer of the job
\* queue, or with a hand-off goroutine
Waiting == {j \in JobIds : Queued(j) \/ hpc[j] \in {"fetch", "send"}}

\* C28: never more than max_queue_size admitted jobs wait for a worker
WaitingJobsBounded == Cardinality(Waiting) <= maxQ

\* ------------------------------------------------------ concurrent CloneRepo
\* two workers are inside Put at once and each calls CloneRepo with the
\* directory of its own job; every clone and download sends one status without
\* error and closes its channel
InitCloneConcurrent ==
    /\ InitDispatch
    /\ env.stops = 0 /\ ~env.faults
    /\ meta = NoMeta
    /\ derived = <<>>
    /\ cwd \in {"/", "/srv/gindoid"}
    /\ \E c1 \in CloneCalls, c2 \in CloneCalls :
          /\ c1.destdir = "/data/doi" /\ c2.destdir = "/data/doi"
          /\ c1.getwdErr = NoErr /\ c2.getwdErr = NoErr
          /\ c1.clone = [stats |-> <<NoErr>>, chdir |-> 1, closes |-> TRUE]
          /\ c2.clone = c1.clone
          /\ c1.download = [stats |-> <<NoErr>>, closes |-> TRUE]
          /\ c2.download = c1.download
          /\ call = <<[c1 EXCEPT !.destdir = "/data/doi/a"],
                      [c2 EXCEPT !.destdir = "/data/doi/b"]>>

SpecCloneConcurrent == InitCloneConcurrent /\ [][NextClone]_vars

\* the directory the process was in before any of the calls started
StartDir == CHOOSE d \in {"/", "/srv/gindoid"} : \E c \in DOMAIN call : call[c].entry = d

\* destdir of the call, or the repository cloned into it
OwnDirs(c) ==
    {call[c].destdir,
     call[c].destdir \o "/" \o RepoName[ToLower[call[c].URI]]}

\* C29: while a call of CloneRepo clones or downloads, the working directory of
\* the process is in the call's own destdir, and when all the calls have
\* returned it is the directory the process was in before the first started
ConcurrentClonesKeepOwnDirectory ==
    /\ \A c \in DOMAIN call :
          call[c].pc \in {"clone", "rangeClone", "download", "rangeDownload"} =>
              cwd \in OwnDirs(c)
    /\ (\A c \in DOMAIN call : Returned(c)) => cwd = StartDir

\* --------------------------------------------------- identity and the Archiver
\* C30: two URIs that CloneRepo clones as the same repository, that is, that
\* are equal once in lower case, are given the same identifier by makeUUID
SameRepositorySameIdentifier ==
    \A i \in 1..Len(derived), k \in 1..Len(derived) :
        ToLower[derived[i][1]] = ToLower[derived[k][1]] =>
            derived[i][2] = derived[k][2]

====
